---- MODULE Spec2Model ----
(***************************************************************************)
(* A model of src/src/contract.rs: a stack kept in an ordered key-value    *)
(* store under one-byte keys.  execute dispatches Push/Pop, query          *)
(* dispatches Count/Sum/List, instantiate is a no-op.                      *)
(*                                                                         *)
(* Bytes are the integers 0..255, a key or a value is a sequence of bytes, *)
(* the store is a function from the occupied keys to their values.         *)
(* Option<T> is a sequence of length 0 (None) or 1 (Some).                 *)
(***************************************************************************)
EXTENDS Integers, Sequences, FiniteSets, TLC

\* ------------------------------------------------------------------ bounds
\* the most Push messages one behaviour executes
MaxPush == 3
\* the most Pop messages one behaviour executes
MaxPop == 3
\* the most slots the store handed to the contract holds at the start (SpecStore)
MaxSlots == 2

\* the values Push is called with
Values == {-1, 5, 2147483647}
\* the one-byte keys a store handed to the contract may hold at the start (SpecStore)
KeyPool == {31, 32, 255}
\* the values a store handed to the contract holds at the start (SpecStore)
StoredValues == {5}

\* ------------------------------------------------------- program constants
FIRST_KEY == 0
U8Max == 255
I32Max == 2147483647
I32Min == (-2147483647) - 1

None == <<>>
Some(x) == <<x>>

\* ------------------------------------------------------------- arithmetic
\* i32 addition `s + v.value`: with overflow checks the build panics on
\* overflow, without them the sum wraps modulo 2^32.  The result is
\* computed without leaving the 32-bit range.
AddOverflows(a, b) ==
    \/ b > 0 /\ a > I32Max - b
    \/ b < 0 /\ a < I32Min - b

WrappingAdd(a, b) ==
    IF b > 0 /\ a > I32Max - b THEN (a + I32Min) + (b + I32Min)
    ELSE IF b < 0 /\ a < I32Min - b THEN (a - I32Min) + (b - I32Min)
    ELSE a + b

\* ---------------------------------------------------------- serialization
\* decimal digits of n >= 0, as ASCII bytes
RECURSIVE Digits(_)
Digits(n) == IF n < 10 THEN <<48 + n>> ELSE Append(Digits(n \div 10), 48 + (n % 10))

\* decimal text of an i32; the magnitude of i32::MIN is I32Max + 1
Decimal(n) ==
    IF n >= 0 THEN Digits(n)
    ELSE IF n = I32Min
         THEN <<45>> \o Append(Digits(I32Max \div 10), 48 + (I32Max % 10) + 1)
    ELSE <<45>> \o Digits(-n)

\* the bytes of {"value":
ItemPrefix == <<123, 34, 118, 97, 108, 117, 101, 34, 58>>
\* the byte of }
ItemSuffix == <<125>>

\* to_vec(&Item { value }): the JSON text {"value":N}
to_vec(value) == ItemPrefix \o Decimal(value) \o ItemSuffix

IsDigit(b) == b >= 48 /\ b <= 57

\* the number a digit string denotes, or -1 when it does not fit an i32
\* magnitude (limit is 2147483647 for a positive, 2147483648 is handled by
\* the caller for a negative number)
RECURSIVE ParseDigits(_, _)
ParseDigits(ds, acc) ==
    IF ds = <<>> THEN acc
    ELSE LET d == Head(ds) - 48 IN
         IF acc > (I32Max - d) \div 10 THEN -1
         ELSE ParseDigits(Tail(ds), acc * 10 + d)

\* from_slice::<Item>: Ok(Item) for the JSON text of an Item with an i32
\* value, Err otherwise (white space and other key orders do not occur in
\* what to_vec writes and are rejected here)
from_slice(bytes) ==
    LET n == Len(bytes)
        p == Len(ItemPrefix)
        Err == [ok |-> FALSE, value |-> 0]
    IN  IF n < p + 2 THEN Err
        ELSE IF SubSeq(bytes, 1, p) # ItemPrefix \/ bytes[n] # 125 THEN Err
        ELSE LET num == SubSeq(bytes, p + 1, n - 1)
                 neg == Head(num) = 45
                 ds  == IF neg THEN Tail(num) ELSE num
             IN  IF ds = <<>> \/ \E i \in 1..Len(ds) : ~IsDigit(ds[i]) THEN Err
                 ELSE IF Len(ds) > 1 /\ ds[1] = 48 THEN Err
                 ELSE IF neg /\ ds = <<48>> THEN Err
                 ELSE IF neg /\ ds = Tail(Decimal(I32Min))
                      THEN [ok |-> TRUE, value |-> I32Min]
                 ELSE LET m == ParseDigits(ds, 0) IN
                      IF m < 0 THEN Err
                      ELSE [ok |-> TRUE, value |-> IF neg THEN -m ELSE m]

\* ---------------------------------------------------------------- storage
\* lexicographic order on byte strings, the order of the store's keys
BytesLess(a, b) ==
    \E i \in 1..(Len(b)) :
        /\ i <= Len(a) + 1
        /\ \A j \in 1..(i - 1) : a[j] = b[j]
        /\ (i = Len(a) + 1 \/ a[i] < b[i])

\* the keys of S in ascending order
RECURSIVE SortAscending(_)
SortAscending(S) ==
    IF S = {} THEN <<>>
    ELSE LET m == CHOOSE k \in S : \A j \in S : j = k \/ BytesLess(k, j)
         IN  <<m>> \o SortAscending(S \ {m})

Reverse(s) == [i \in 1..Len(s) |-> s[Len(s) + 1 - i]]

\* start is inclusive, end is exclusive, None is unbounded
InBounds(k, start, end) ==
    /\ start = None \/ ~BytesLess(k, start[1])
    /\ end = None \/ BytesLess(k, end[1])

\* storage.range(start, end, order): the (key, value) pairs in key order
range(storage, start, end, order) ==
    LET ks  == {k \in DOMAIN storage : InBounds(k, start, end)}
        asc == SortAscending(ks)
        seq == IF order = "Ascending" THEN asc ELSE Reverse(asc)
    IN  [i \in 1..Len(seq) |-> <<seq[i], storage[seq[i]]>>]

\* iterator.next()
next(iter) == IF iter = <<>> THEN None ELSE Some(Head(iter))

\* storage.set as it would be if it inserted only when the key is absent
set_if_absent(storage, key, value) ==
    [k \in (DOMAIN storage) \cup {key} |->
        IF k \in DOMAIN storage THEN storage[k] ELSE value]

\* storage.set(key, value): overwrites
set(storage, key, value) ==
    [k \in (DOMAIN storage) \cup {key} |-> IF k = key THEN value ELSE storage[k]]

\* storage.remove(key)
remove(storage, key) == [k \in (DOMAIN storage) \ {key} |-> storage[k]]

\* ------------------------------------------------------------------ state
VARIABLES
    store,            \* deps.storage: occupied key -> stored bytes
    overflow_checks,  \* the build: TRUE when integer overflow panics
    res,              \* what the last entry point returned
    pre,              \* the store as the last entry point found it
    pushed,           \* history: the values of all Push messages, in order
    stack,            \* history: the abstract stack the same messages build
    npop,             \* history: the number of Pop messages
    phase,            \* history: "pushing" until the first Pop, "popping"
                      \* until the next Push, "mixed" from then on
    poppedEmpty,      \* history: some Pop found the store empty
    afterPush         \* history: the entry point called before the last one
                      \* was a Push

vars == <<store, overflow_checks, res, pre, pushed, stack, npop, phase, poppedEmpty,
          afterPush>>

\* a response: the entry point, its argument, how it ended ("ok", "err" or
\* "panic"), Response.data, and the fields of the three query responses
Reply(op, arg, status, data, count, sum, empty, early, late) ==
    [op |-> op, arg |-> arg, status |-> status, data |-> data, count |-> count,
     sum |-> sum, empty |-> empty, early |-> early, late |-> late]

\* Response::default() of an execute or instantiate call
Response(op, arg, status, data) == Reply(op, arg, status, data, 0, 0, <<>>, <<>>, <<>>)

\* ------------------------------------------------------------------- push
\* new_key as it would be if the first key were 1
new_key_first_is_one(storage, checks) ==
    LET last_item == next(range(storage, None, None, "Ascending")) IN
    IF last_item = None THEN [panic |-> FALSE, key |-> 1]
    ELSE LET key == last_item[1][1] IN
         IF key[1] = U8Max
         THEN [panic |-> checks, key |-> 0]
         ELSE [panic |-> FALSE, key |-> key[1] + 1]

\* new_key as it would be if it incremented the greatest occupied key
new_key_from_max(storage, checks) ==
    LET last_item == next(range(storage, None, None, "Descending")) IN
    IF last_item = None THEN [panic |-> FALSE, key |-> FIRST_KEY]
    ELSE LET key == last_item[1][1] IN
         IF key[1] = U8Max
         THEN [panic |-> checks, key |-> 0]
         ELSE [panic |-> FALSE, key |-> key[1] + 1]

\* key[0] + 1 on u8: an overflow panics with overflow checks and wraps to 0
\* without them
new_key(storage, checks) ==
    LET last_item == next(range(storage, None, None, "Ascending")) IN
    IF last_item = None THEN [panic |-> FALSE, key |-> FIRST_KEY]
    ELSE LET key == last_item[1][1] IN
         IF key[1] = U8Max
         THEN [panic |-> checks, key |-> 0]
         ELSE [panic |-> FALSE, key |-> key[1] + 1]

\* push(storage, value): the status and the storage afterwards
push(storage, value, checks) ==
    LET nk == new_key(storage, checks) IN
    IF nk.panic THEN [status |-> "panic", storage |-> storage]
    ELSE [status |-> "ok", storage |-> set(storage, <<nk.key>>, to_vec(value))]

\* handle_push
handle_push(storage, value, checks) ==
    LET r == push(storage, value, checks) IN
    [storage |-> r.storage, res |-> Response("push", value, r.status, None)]

\* -------------------------------------------------------------------- pop
\* handle_pop as it would be if an empty store were reported as an error
handle_pop_empty_is_error(storage) ==
    LET first == next(range(storage, None, None, "Descending")) IN
    IF first # None
    THEN [storage |-> remove(storage, first[1][1]),
          res |-> Response("pop", 0, "ok", Some(first[1][2]))]
    ELSE [storage |-> storage, res |-> Response("pop", 0, "err", None)]

\* handle_pop as it would be if it returned the entry without removing it
handle_pop_no_remove(storage) ==
    LET first == next(range(storage, None, None, "Descending")) IN
    IF first # None
    THEN [storage |-> storage,
          res |-> Response("pop", 0, "ok", Some(first[1][2]))]
    ELSE [storage |-> storage, res |-> Response("pop", 0, "ok", None)]

\* handle_pop as it would be if it took the first entry in ascending order
handle_pop_ascending(storage) ==
    LET first == next(range(storage, None, None, "Ascending")) IN
    IF first # None
    THEN [storage |-> remove(storage, first[1][1]),
          res |-> Response("pop", 0, "ok", Some(first[1][2]))]
    ELSE [storage |-> storage, res |-> Response("pop", 0, "ok", None)]

handle_pop(storage) ==
    LET first == next(range(storage, None, None, "Descending")) IN
    IF first # None
    THEN [storage |-> remove(storage, first[1][1]),
          res |-> Response("pop", 0, "ok", Some(first[1][2]))]
    ELSE [storage |-> storage, res |-> Response("pop", 0, "ok", None)]

\* ---------------------------------------------------------------- queries
stack_count(storage) == Len(range(storage, None, None, "Ascending"))

\* the fold of line 139 over the items from position i on
RECURSIVE FoldSum(_, _, _, _)
FoldSum(items, i, s, checks) ==
    IF i > Len(items) THEN [status |-> "ok", sum |-> s]
    ELSE IF checks /\ AddOverflows(s, items[i].value)
         THEN [status |-> "panic", sum |-> 0]
         ELSE FoldSum(items, i + 1, WrappingAdd(s, items[i].value), checks)

\* stack_sum as it would be if an empty store were reported as an error
stack_sum_empty_is_error(storage, checks) ==
    LET entries == range(storage, None, None, "Ascending")
        values  == [i \in 1..Len(entries) |-> from_slice(entries[i][2])]
    IN  IF entries = <<>> \/ \E i \in 1..Len(values) : ~values[i].ok
        THEN [status |-> "err", sum |-> 0]
        ELSE FoldSum(values, 1, 0, checks)

stack_sum(storage, checks) ==
    LET entries == range(storage, None, None, "Ascending")
        values  == [i \in 1..Len(entries) |-> from_slice(entries[i][2])]
    IN  IF \E i \in 1..Len(values) : ~values[i].ok
        THEN [status |-> "err", sum |-> 0]
        ELSE FoldSum(values, 1, 0, checks)

\* k[0] as u32 of every entry
KeyBytes(entries) == [i \in 1..Len(entries) |-> entries[i][1][1]]

\* the bytes of "large" and of "larger"
Large == <<108, 97, 114, 103, 101>>
Larger == <<108, 97, 114, 103, 101, 114>>

\* stack_list as it would be if the end bound of early were inclusive
stack_list_early_inclusive(storage) ==
    [empty |-> KeyBytes(range(storage, Some(Large), Some(Larger), "Ascending")),
     early |-> KeyBytes(range(storage, None, Some(<<32, 0>>), "Ascending")),
     late  |-> KeyBytes(range(storage, Some(<<32>>), None, "Ascending"))]

stack_list(storage) ==
    [empty |-> KeyBytes(range(storage, Some(Large), Some(Larger), "Ascending")),
     early |-> KeyBytes(range(storage, None, Some(<<32>>), "Ascending")),
     late  |-> KeyBytes(range(storage, Some(<<32>>), None, "Ascending"))]

\* ---------------------------------------------------------------- actions
\* the history variables, for an entry point that is no Push and no Pop
SameHistory ==
    /\ afterPush' = (res.op = "push")
    /\ UNCHANGED <<pushed, stack, npop, phase, poppedEmpty>>

\* instantiate: no storage access
Instantiate ==
    /\ res' = Response("instantiate", 0, "ok", None)
    /\ pre' = store
    /\ UNCHANGED <<store, overflow_checks>>
    /\ SameHistory

\* execute(ExecuteMsg::Push { value })
ExecutePush(value) ==
    /\ Len(pushed) < MaxPush
    /\ LET r == handle_push(store, value, overflow_checks) IN
        /\ store' = r.storage
        /\ res' = r.res
    /\ pre' = store
    /\ pushed' = Append(pushed, value)
    /\ stack' = Append(stack, value)
    /\ phase' = IF phase = "pushing" THEN "pushing" ELSE "mixed"
    /\ afterPush' = (res.op = "push")
    /\ UNCHANGED <<overflow_checks, npop, poppedEmpty>>

\* execute(ExecuteMsg::Pop {})
ExecutePop ==
    /\ npop < MaxPop
    /\ LET r == handle_pop(store) IN
        /\ store' = r.storage
        /\ res' = r.res
    /\ pre' = store
    /\ npop' = npop + 1
    /\ stack' = IF stack = <<>> THEN stack ELSE SubSeq(stack, 1, Len(stack) - 1)
    /\ phase' = IF phase = "pushing" THEN "popping" ELSE phase
    /\ poppedEmpty' = (poppedEmpty \/ DOMAIN store = {})
    /\ afterPush' = (res.op = "push")
    /\ UNCHANGED <<overflow_checks, pushed>>

\* query(QueryMsg::Count {})
QueryCount ==
    /\ res' = Reply("count", 0, "ok", None, stack_count(store), 0, <<>>, <<>>, <<>>)
    /\ pre' = store
    /\ UNCHANGED <<store, overflow_checks>>
    /\ SameHistory

\* query(QueryMsg::Sum {}) as it would be if it consumed the last entry it read
QuerySum_draining ==
    /\ LET r == stack_sum(store, overflow_checks) IN
        res' = Reply("sum", 0, r.status, None, 0, r.sum, <<>>, <<>>, <<>>)
    /\ pre' = store
    /\ store' = handle_pop(store).storage
    /\ UNCHANGED overflow_checks
    /\ SameHistory

\* query(QueryMsg::Sum {})
QuerySum ==
    /\ LET r == stack_sum(store, overflow_checks) IN
        res' = Reply("sum", 0, r.status, None, 0, r.sum, <<>>, <<>>, <<>>)
    /\ pre' = store
    /\ UNCHANGED <<store, overflow_checks>>
    /\ SameHistory

\* query(QueryMsg::List {})
QueryList ==
    /\ LET r == stack_list(store) IN
        res' = Reply("list", 0, "ok", None, 0, 0, r.empty, r.early, r.late)
    /\ pre' = store
    /\ UNCHANGED <<store, overflow_checks>>
    /\ SameHistory

Next ==
    \/ Instantiate
    \/ \E value \in Values : ExecutePush(value)
    \/ ExecutePop
    \/ QueryCount
    \/ QuerySum
    \/ QueryList

\* the history of a contract no message has reached yet
NoHistory ==
    /\ res = Response("none", 0, "ok", None)
    /\ pre = store
    /\ pushed = <<>>
    /\ stack = <<>>
    /\ npop = 0
    /\ phase = "pushing"
    /\ poppedEmpty = FALSE
    /\ afterPush = FALSE

\* a freshly deployed contract: the storage is empty
Init ==
    /\ store = <<>>
    /\ overflow_checks \in BOOLEAN
    /\ NoHistory

Spec == Init /\ [][Next]_vars

\* the stores of at most MaxSlots one-byte keys of KeyPool holding Items
Stores ==
    UNION {[{<<k>> : k \in ks} -> {to_vec(v) : v \in StoredValues}] :
           ks \in {s \in SUBSET KeyPool : Cardinality(s) <= MaxSlots}}

\* the entry points as functions of the storage they are handed: any
\* storage of one-byte keys holding Items
InitStore ==
    /\ store \in Stores
    /\ overflow_checks \in BOOLEAN
    /\ NoHistory

SpecStore == InitStore /\ [][Next]_vars

\* ----------------------------------------------------------------- claims
\* the occupied keys, as bytes
Keys(storage) == {k[1] : k \in DOMAIN storage}

\* the greatest occupied key byte of a non-empty store
MaxKey(storage) == CHOOSE m \in Keys(storage) : \A k \in Keys(storage) : k <= m

\* the least occupied key byte of a non-empty store
MinKey(storage) == CHOOSE m \in Keys(storage) : \A k \in Keys(storage) : m <= k

\* the 32-bit wrapping sum of a sequence of values
RECURSIVE WrapSum(_)
WrapSum(vs) == IF vs = <<>> THEN 0 ELSE WrappingAdd(WrapSum(Tail(vs)), Head(vs))

\* a sequence of numbers is strictly ascending
Ascending(seq) == \A i \in 1..(Len(seq) - 1) : seq[i] < seq[i + 1]

\* the elements of a sequence
Range(seq) == {seq[i] : i \in 1..Len(seq)}

\* C1: LIFO order.  After N pushes on the empty store followed only by
\* pops, the k-th pop (k <= N) returns the serialized record of the
\* (N-k+1)-th pushed value.
C1_LifoOrder ==
    (phase = "popping" /\ res.op = "pop" /\ npop <= Len(pushed))
        => res.data = Some(to_vec(pushed[Len(pushed) - npop + 1]))

\* C2: Count() after N pushes and M pops, no pop having found the store
\* empty, returns N - M.
C2_CountIsPushesMinusPops ==
    (res.op = "count" /\ ~poppedEmpty) => res.count = Len(pushed) - npop

\* C3: a Sum() that returns, returns the 32-bit wrapping sum of the values
\* pushed and not yet popped (the contents of the abstract stack).
C3_SumOfUnpopped ==
    (res.op = "sum" /\ res.status = "ok") => res.sum = WrapSum(stack)

\* C4: Pop on a store with no slots succeeds, returns no payload and leaves
\* the store empty.
C4_PopOnEmpty ==
    (res.op = "pop" /\ DOMAIN pre = {})
        => (res.status = "ok" /\ res.data = None /\ DOMAIN store = {})

\* C4 witness: a Pop has found the store empty after pushes and pops emptied it
C4_Witness ==
    res.op = "pop" /\ DOMAIN pre = {} /\ Len(pushed) > 0 /\ npop > 1

\* C5: List() returns empty = [], early = the occupied keys < 0x20 in
\* ascending order, late = the occupied keys >= 0x20 in ascending order;
\* early and late are disjoint and together are all occupied keys.
C5_ListPartition ==
    res.op = "list" =>
        /\ res.status = "ok"
        /\ res.empty = <<>>
        /\ Ascending(res.early)
        /\ Ascending(res.late)
        /\ Range(res.early) = {k \in Keys(store) : k < 32}
        /\ Range(res.late) = {k \in Keys(store) : k >= 32}
        /\ Range(res.early) \cap Range(res.late) = {}
        /\ Range(res.early) \cup Range(res.late) = Keys(store)

\* C5 witness: a List() of a store with keys on both sides of 0x20, key
\* 0x1f and key 0x20 among them
C5_Witness ==
    res.op = "list" /\ 31 \in Range(res.early) /\ 32 \in Range(res.late)

\* C6: after N consecutive pushes on the empty store the occupied keys are
\* 0..N-1, and List() then returns min(N,32) early and N - min(N,32) late keys.
C6_ConsecutivePushKeys ==
    phase = "pushing" =>
        /\ Keys(store) = 0..(Len(pushed) - 1)
        /\ res.op = "list" =>
            LET n == Len(pushed)
                e == IF n < 32 THEN n ELSE 32
            IN  Len(res.early) = e /\ Len(res.late) = n - e

\* C7: push writes the new slot at key 0 when no key is occupied and at
\* (maximum occupied key) + 1 otherwise.
C7_PushAtMaxPlusOne ==
    (res.op = "push" /\ res.status = "ok") =>
        store = set(pre,
                    <<IF DOMAIN pre = {} THEN FIRST_KEY ELSE MaxKey(pre) + 1>>,
                    to_vec(res.arg))

\* C8: a push creates exactly one new slot at a key that was not occupied,
\* and every slot present before is still present with the same value.
C8_PushCreatesOneSlot ==
    res.op = "push" =>
        /\ Cardinality(DOMAIN store) = Cardinality(DOMAIN pre) + 1
        /\ \A k \in DOMAIN pre : k \in DOMAIN store /\ store[k] = pre[k]

\* C9: Pop on a non-empty store removes exactly the slot with the greatest
\* key, returns that slot's bytes as payload and leaves every other slot
\* unchanged.
C9_PopRemovesGreatest ==
    (res.op = "pop" /\ DOMAIN pre # {}) =>
        LET m == <<MaxKey(pre)>> IN
        /\ res.status = "ok"
        /\ res.data = Some(pre[m])
        /\ DOMAIN store = DOMAIN pre \ {m}
        /\ \A k \in DOMAIN store : store[k] = pre[k]

\* C9 witness: a Pop has found two slots holding different values
C9_Witness ==
    /\ res.op = "pop"
    /\ Cardinality(DOMAIN pre) = 2
    /\ \E j, k \in DOMAIN pre : pre[j] # pre[k]

StoredItems(storage) ==
    LET entries == range(storage, None, None, "Ascending")
    IN  [i \in 1..Len(entries) |-> from_slice(entries[i][2]).value]

\* C11: Count, Sum, List and instantiate leave the store as they found it
\* (same keys, same values), and instantiate succeeds.
C11_QueriesReadOnly ==
    res.op \in {"count", "sum", "list", "instantiate"} =>
        /\ store = pre
        /\ res.op = "instantiate" => res.status = "ok"

\* C11 witness: a Sum() has read a store of two slots
C11_Witness == res.op = "sum" /\ Cardinality(DOMAIN pre) = 2

\* C12: every Push, Pop, Count, Sum and List issued from the empty store on
\* returns success: no error value and no panic.
C12_NoFailure == res.status = "ok"

\* C13: on a store with no slots Count() = 0, Sum() = 0 and List() returns
\* three empty lists.
C13_EmptyStoreQueries ==
    DOMAIN store = {} =>
        /\ res.op = "count" => res.count = 0
        /\ res.op = "sum" => (res.status = "ok" /\ res.sum = 0)
        /\ res.op = "list" =>
            (res.empty = <<>> /\ res.early = <<>> /\ res.late = <<>>)

\* C13 witness: a Sum() on a store that pushes filled and pops emptied again
C13_Witness ==
    res.op = "sum" /\ DOMAIN store = {} /\ Len(pushed) > 0 /\ npop > 0

\* C14: the occupied keys are exactly 0..n-1 for the number n of slots, and
\* every key is a single byte.
C14_Contiguous ==
    /\ Keys(store) = 0..(Cardinality(DOMAIN store) - 1)
    /\ \A k \in DOMAIN store : Len(k) = 1 /\ k[1] \in 0..U8Max

\* C14 witness: two slots are held after pushes and pops were interleaved
C14_Witness == phase = "mixed" /\ Cardinality(DOMAIN store) = 2 /\ npop > 1

\* C15: Sum() succeeds and returns the sum of the stored values wrapped
\* modulo 2^32, also when the sum overflows an i32.
C15_SumWraps ==
    res.op = "sum" =>
        (res.status = "ok" /\ res.sum = WrapSum(StoredItems(store)))

\* C16: a Pop called right after Push(v) returns the serialized record of v.
C16_PushPopRoundTrip ==
    (res.op = "pop" /\ afterPush)
        => res.data = Some(to_vec(pushed[Len(pushed)]))

\* C16 witness: a Pop right after the third Push, which found two slots
C16_Witness ==
    res.op = "pop" /\ afterPush /\ Len(pushed) = 3 /\ Cardinality(DOMAIN pre) = 2

C18_CountPopAgreement ==
    res.op = "pop" =>
        /\ res.data # None <=> stack_count(pre) > 0
        /\ res.data # None => stack_count(store) = stack_count(pre) - 1
        /\ res.data = None => stack_count(store) = 0

\* C18 witness: after two pushes (Count() = 2) and then only pops, the
\* third Pop has returned no payload
C18_Witness ==
    /\ res.op = "pop"
    /\ phase = "popping"
    /\ Len(pushed) = 2
    /\ npop = 3
    /\ res.data = None

====
